---------------------------- MODULE Spec2Model ----------------------------
(***************************************************************************)
(* Fuzzy matching and incremental deduplication of publication records:   *)
(* the title normalizer, the similarity scorer, the one-shot reconciler   *)
(* (compare_publications.py) and the incremental updater with its merge   *)
(* step (update_incremental.py).                                          *)
(*                                                                         *)
(* Strings are sequences of one-character strings.  Scores are exact      *)
(* rationals <<numerator, denominator>>; for the title lengths explored   *)
(* here no comparison made by the code falls on a floating-point rounding *)
(* boundary, so the exact order is the order the floats have.             *)
(***************************************************************************)
EXTENDS Integers, Sequences, FiniteSets, TLC

(***************************************************************************)
(* Bounds of the exploration.                                              *)
(***************************************************************************)
MaxStore == 2
MaxBatch == 2
MaxTime == 1
MaxCv == 2
MaxScholar == 2

(***************************************************************************)
(* Characters and strings.                                                 *)
(***************************************************************************)
Whitespace == {" ", "\t"}

\* The character class of re.sub(r'[.,;:!?"\']', '', title).
Punctuation == {".", ",", ";", ":", "!", "?", "\"", "'"}

Digits == <<"0", "1", "2", "3", "4", "5", "6", "7", "8", "9">>

\* str.lower() on the letters used here; every other character is kept.
LowerChar(c) ==
    CASE c = "A" -> "a"
      [] c = "B" -> "b"
      [] c = "C" -> "c"
      [] c = "X" -> "x"
      [] c = "Y" -> "y"
      [] c = "N" -> "n"
      [] c = "M" -> "m"
      [] c = "F" -> "f"
      [] c = "R" -> "r"
      [] c = "W" -> "w"
      [] OTHER -> c

Lower(s) == [i \in 1..Len(s) |-> LowerChar(s[i])]

\* re.sub(r'[.,;:!?"\']', '', s)
RECURSIVE RemovePunctuation(_)
RemovePunctuation(s) ==
    IF s = <<>> THEN <<>>
    ELSE IF Head(s) \in Punctuation THEN RemovePunctuation(Tail(s))
    ELSE <<Head(s)>> \o RemovePunctuation(Tail(s))

\* re.sub(r'\s+', ' ', s): every maximal run of whitespace becomes one space.
RECURSIVE CollapseWhitespace(_)
CollapseWhitespace(s) ==
    IF s = <<>> THEN <<>>
    ELSE IF Head(s) \in Whitespace
         THEN IF Len(s) > 1 /\ s[2] \in Whitespace
              THEN CollapseWhitespace(Tail(s))
              ELSE <<" ">> \o CollapseWhitespace(Tail(s))
         ELSE <<Head(s)>> \o CollapseWhitespace(Tail(s))

\* str.strip(): leading and trailing whitespace removed.
RECURSIVE LStrip(_)
LStrip(s) ==
    IF s # <<>> /\ Head(s) \in Whitespace THEN LStrip(Tail(s)) ELSE s

RECURSIVE RStrip(_)
RStrip(s) ==
    IF s # <<>> /\ s[Len(s)] \in Whitespace
    THEN RStrip(SubSeq(s, 1, Len(s) - 1))
    ELSE s

Strip(s) == RStrip(LStrip(s))

\* normalize_title with the whitespace step before the punctuation step.
normalize_title_whitespace_first(title) ==
    RemovePunctuation(Strip(CollapseWhitespace(Lower(title))))

normalize_title(title) ==
    Strip(CollapseWhitespace(RemovePunctuation(Lower(title))))

(***************************************************************************)
(* difflib.SequenceMatcher(None, a, b).ratio() with no junk: the longest   *)
(* matching block of a window (longest, then earliest in a, then earliest  *)
(* in b), then the windows to its left and right; ratio = 2*M/T, and 1.0   *)
(* when both strings are empty.  Windows are [lo, hi) over 1-based         *)
(* positions.                                                              *)
(***************************************************************************)
RECURSIVE RunLen(_, _, _, _, _, _)
RunLen(a, b, i, j, ahi, bhi) ==
    IF i < ahi /\ j < bhi /\ a[i] = b[j]
    THEN 1 + RunLen(a, b, i + 1, j + 1, ahi, bhi)
    ELSE 0

MaxOf(S) == CHOOSE x \in S : \A y \in S : y <= x
MinOf(S) == CHOOSE x \in S : \A y \in S : x <= y

find_longest_match(a, b, alo, ahi, blo, bhi) ==
    LET run == [p \in (alo..(ahi - 1)) \X (blo..(bhi - 1)) |->
                   RunLen(a, b, p[1], p[2], ahi, bhi)]
        best == MaxOf({0} \cup {run[p] : p \in DOMAIN run})
    IN  IF best = 0 THEN <<alo, blo, 0>>
        ELSE LET i == MinOf({p[1] : p \in {q \in DOMAIN run : run[q] = best}})
                 j == MinOf({p[2] : p \in {q \in DOMAIN run :
                                              q[1] = i /\ run[q] = best}})
             IN  <<i, j, best>>

RECURSIVE MatchTotal(_, _, _, _, _, _)
MatchTotal(a, b, alo, ahi, blo, bhi) ==
    IF alo >= ahi \/ blo >= bhi THEN 0
    ELSE LET m == find_longest_match(a, b, alo, ahi, blo, bhi)
         IN  IF m[3] = 0 THEN 0
             ELSE m[3]
                  + MatchTotal(a, b, alo, m[1], blo, m[2])
                  + MatchTotal(a, b, m[1] + m[3], ahi, m[2] + m[3], bhi)

similarity_score(str1, str2) ==
    IF Len(str1) + Len(str2) = 0 THEN <<1, 1>>
    ELSE <<2 * MatchTotal(str1, str2, 1, Len(str1) + 1, 1, Len(str2) + 1),
           Len(str1) + Len(str2)>>

\* Order on scores.
Geq(s, t) == s[1] * t[2] >= t[1] * s[2]
Gt(s, t) == s[1] * t[2] > t[1] * s[2]
SameScore(s, t) == s[1] * t[2] = t[1] * s[2]

ZeroScore == <<0, 1>>
DuplicateThreshold == <<85, 100>>
PotentialThreshold == <<65, 100>>

\* YearPenalty with the factor 0.8.
YearPenalty_eight_tenths(s) == <<s[1] * 8, s[2] * 10>>

\* score *= 0.7
YearPenalty(s) == <<s[1] * 7, s[2] * 10>>

(***************************************************************************)
(* Year values as they stand in a JSON document: the key absent, null, a   *)
(* string, or a number.                                                    *)
(***************************************************************************)
AbsentYear == [tag |-> "absent", s |-> <<>>, n |-> 0]
NullYear == [tag |-> "null", s |-> <<>>, n |-> 0]
StrYear(s) == [tag |-> "str", s |-> s, n |-> 0]
IntYear(n) == [tag |-> "int", s |-> <<>>, n |-> n]

\* str(n) for n >= 0
RECURSIVE IntToStr(_)
IntToStr(n) ==
    IF n < 10 THEN <<Digits[n + 1]>>
    ELSE IntToStr(n \div 10) \o <<Digits[(n % 10) + 1]>>

DigitValue(c) == CHOOSE d \in 0..9 : Digits[d + 1] = c
IsDigit(c) == \E d \in 0..9 : Digits[d + 1] = c

RECURSIVE DigitsValue(_)
DigitsValue(s) ==
    IF s = <<>> THEN 0
    ELSE 10 * DigitsValue(SubSeq(s, 1, Len(s) - 1)) + DigitValue(s[Len(s)])

\* int(s) for a string: surrounding whitespace is dropped, an optional sign,
\* then decimal digits; anything else raises ValueError (ok = FALSE).
IntOfStr(s) ==
    LET t == Strip(s)
        signed == t # <<>> /\ Head(t) \in {"+", "-"}
        d == IF signed THEN Tail(t) ELSE t
    IN  IF d # <<>> /\ \A i \in 1..Len(d) : IsDigit(d[i])
        THEN [ok |-> TRUE,
              v |-> IF signed /\ Head(t) = "-" THEN 0 - DigitsValue(d)
                    ELSE DigitsValue(d)]
        ELSE [ok |-> FALSE, v |-> 0]

\* str(pub.get('year', ''))
YearStr(y) ==
    CASE y.tag = "absent" -> <<>>
      [] y.tag = "null" -> <<"N", "o", "n", "e">>
      [] y.tag = "str" -> y.s
      [] y.tag = "int" -> IntToStr(y.n)

\* int(x.get('year', 0) or 0)
YearSortKey(y) ==
    CASE y.tag = "absent" -> [ok |-> TRUE, v |-> 0]
      [] y.tag = "null" -> [ok |-> TRUE, v |-> 0]
      [] y.tag = "str" -> IF y.s = <<>> THEN [ok |-> TRUE, v |-> 0]
                          ELSE IntOfStr(y.s)
      [] y.tag = "int" -> [ok |-> TRUE, v |-> y.n]

(***************************************************************************)
(* Records and documents.  A publication is [title, year]; the other       *)
(* fields of a record (authors, venue, citations) are carried along by the *)
(* code and never read by the matching or the merge.                       *)
(***************************************************************************)
Pub(t, y) == [title |-> t, year |-> y]

\* A file: absent, a complete JSON document, or the remains of a write that
\* was cut short (open(path, 'w') has truncated it, the dump did not finish).
AbsentFile == [kind |-> "absent", publications |-> <<>>,
               total_publications |-> 0, last_updated |-> 0]
PartialFile == [kind |-> "partial", publications |-> <<>>,
                total_publications |-> 0, last_updated |-> 0]
Doc(pubs, total, stamp) == [kind |-> "doc", publications |-> pubs,
                            total_publications |-> total, last_updated |-> stamp]

DefaultPath == "data/publications.json"
CustomPath == "existing_data.json"
Paths == {DefaultPath, CustomPath}

(***************************************************************************)
(* IncrementalUpdater.find_new_publications                                *)
(***************************************************************************)
\* DedupScore with the penalty applied whenever both records have a year.
DedupScore_penalty_any_years(new_pub, existing_pub) ==
    LET score == similarity_score(normalize_title(new_pub.title),
                                  normalize_title(existing_pub.title))
    IN  IF YearStr(new_pub.year) # <<>> /\ YearStr(existing_pub.year) # <<>>
        THEN YearPenalty(score)
        ELSE score

\* The score of one (new, existing) comparison, lines 79-87.
DedupScore(new_pub, existing_pub) ==
    LET score == similarity_score(normalize_title(new_pub.title),
                                  normalize_title(existing_pub.title))
        new_year == YearStr(new_pub.year)
        existing_year == YearStr(existing_pub.year)
    IN  IF new_year # <<>> /\ existing_year # <<>> /\ new_year # existing_year
        THEN YearPenalty(score)
        ELSE score

\* ScanExisting that scans the whole of existing_pubs and reports the
\* best-scoring record.
RECURSIVE ScanExisting_best_of_all(_, _, _, _, _, _)
ScanExisting_best_of_all(new_pub, existing_pubs, similarity_threshold, j, best_score, best_match) ==
    IF j > Len(existing_pubs)
    THEN [is_duplicate |-> best_match # 0 /\ Geq(best_score, similarity_threshold),
          existing |-> best_match, score |-> best_score]
    ELSE LET score == DedupScore(new_pub, existing_pubs[j])
             better == Gt(score, best_score)
         IN  ScanExisting_best_of_all(new_pub, existing_pubs, similarity_threshold,
                                      j + 1,
                                      IF better THEN score ELSE best_score,
                                      IF better THEN j ELSE best_match)

\* ScanExisting in which a later record with an equal score replaces the best.
RECURSIVE ScanExisting_last_best(_, _, _, _, _, _)
ScanExisting_last_best(new_pub, existing_pubs, similarity_threshold, j, best_score, best_match) ==
    IF j > Len(existing_pubs)
    THEN [is_duplicate |-> FALSE, existing |-> best_match, score |-> best_score]
    ELSE LET score == DedupScore(new_pub, existing_pubs[j])
             better == Geq(score, best_score) /\ Gt(score, ZeroScore)
         IN  IF Geq(score, similarity_threshold)
             THEN [is_duplicate |-> TRUE, existing |-> j, score |-> score]
             ELSE ScanExisting_last_best(new_pub, existing_pubs,
                                         similarity_threshold, j + 1,
                                         IF better THEN score ELSE best_score,
                                         IF better THEN j ELSE best_match)

\* The inner loop over existing_pubs from position j on, with the best match
\* so far (best_match = 0 stands for None).  It stops at the first record
\* whose score reaches the threshold.
RECURSIVE ScanExisting(_, _, _, _, _, _)
ScanExisting(new_pub, existing_pubs, similarity_threshold, j, best_score, best_match) ==
    IF j > Len(existing_pubs)
    THEN [is_duplicate |-> FALSE, existing |-> best_match, score |-> best_score]
    ELSE LET score == DedupScore(new_pub, existing_pubs[j])
             better == Gt(score, best_score)
         IN  IF Geq(score, similarity_threshold)
             THEN [is_duplicate |-> TRUE, existing |-> j, score |-> score]
             ELSE ScanExisting(new_pub, existing_pubs, similarity_threshold, j + 1,
                               IF better THEN score ELSE best_score,
                               IF better THEN j ELSE best_match)

\* DedupStep with the matched existing record taken out of existing_pubs, as
\* the comparator's claiming would do.
DedupStep_claiming(self, new_pub, similarity_threshold) ==
    LET r == ScanExisting(new_pub, self.existing_pubs, similarity_threshold,
                          1, ZeroScore, 0)
        pair == [new |-> new_pub, existing |-> self.existing_pubs[r.existing],
                 idx |-> r.existing, score |-> r.score]
        rest == [k \in 1..(Len(self.existing_pubs) - 1) |->
                    IF k < r.existing THEN self.existing_pubs[k]
                    ELSE self.existing_pubs[k + 1]]
    IN  IF r.is_duplicate
        THEN [self EXCEPT !.duplicates = Append(@, pair), !.existing_pubs = rest]
        ELSE IF Geq(r.score, PotentialThreshold)
             THEN [self EXCEPT !.potential_duplicates = Append(@, pair)]
             ELSE [self EXCEPT !.truly_new = Append(@, new_pub)]

\* One pass of the outer loop body, lines 70-112, on the updater's fields:
\* new_pub is appended to exactly one of duplicates, potential_duplicates and
\* truly_new.  A pair keeps the new record, the existing record (with its
\* position idx in existing_pubs) and the score.
DedupStep(self, new_pub, similarity_threshold) ==
    LET r == ScanExisting(new_pub, self.existing_pubs, similarity_threshold,
                          1, ZeroScore, 0)
        pair == [new |-> new_pub, existing |-> self.existing_pubs[r.existing],
                 idx |-> r.existing, score |-> r.score]
    IN  IF r.is_duplicate
        THEN [self EXCEPT !.duplicates = Append(@, pair)]
        ELSE IF Geq(r.score, PotentialThreshold)
             THEN [self EXCEPT !.potential_duplicates = Append(@, pair)]
             ELSE [self EXCEPT !.truly_new = Append(@, new_pub)]

\* for new_pub in self.new_pubs, from position k on.
RECURSIVE DedupLoop(_, _, _)
DedupLoop(self, k, similarity_threshold) ==
    IF k > Len(self.new_pubs) THEN self
    ELSE DedupLoop(DedupStep(self, self.new_pubs[k], similarity_threshold),
                   k + 1, similarity_threshold)

find_new_publications(self, similarity_threshold) ==
    DedupLoop(self, 1, similarity_threshold)

(***************************************************************************)
(* IncrementalUpdater.merge_and_save: the sort of line 140.                *)
(***************************************************************************)
\* list.sort(key=..., reverse=True) is stable: records with equal keys keep
\* their order.  Insert puts p after every record whose key is >= its own.
\* InsertByYear without reverse=True: ascending.
RECURSIVE InsertByYear_ascending(_, _)
InsertByYear_ascending(sorted, p) ==
    IF sorted = <<>> THEN <<p>>
    ELSE IF YearSortKey(Head(sorted).year).v <= YearSortKey(p.year).v
         THEN <<Head(sorted)>> \o InsertByYear_ascending(Tail(sorted), p)
         ELSE <<p>> \o sorted

RECURSIVE InsertByYear(_, _)
InsertByYear(sorted, p) ==
    IF sorted = <<>> THEN <<p>>
    ELSE IF YearSortKey(Head(sorted).year).v >= YearSortKey(p.year).v
         THEN <<Head(sorted)>> \o InsertByYear(Tail(sorted), p)
         ELSE <<p>> \o sorted

RECURSIVE SortByYearDesc(_)
SortByYearDesc(pubs) ==
    IF pubs = <<>> THEN <<>>
    ELSE InsertByYear(SortByYearDesc(SubSeq(pubs, 1, Len(pubs) - 1)),
                      pubs[Len(pubs)])

\* The key function raises ValueError on some record.
SortRaises(pubs) == \E k \in 1..Len(pubs) : ~YearSortKey(pubs[k].year).ok

(***************************************************************************)
(* The inputs explored.                                                    *)
(***************************************************************************)
Y2019 == StrYear(<<"2", "0", "1", "9">>)
Y2020 == StrYear(<<"2", "0", "2", "0">>)
Y2021 == StrYear(<<"2", "0", "2", "1">>)
YUnparsable == StrYear(<<"n", ".", "d", ".">>)

ExistingPool ==
    { Pub(<<"a", "b", "c">>, Y2019),
      Pub(<<"a", "b", "c", "d">>, Y2020),
      Pub(<<"x", "y">>, AbsentYear),
      Pub(<<"a", "b">>, YUnparsable) }

BatchPool ==
    { Pub(<<"A", "b", "c", ".">>, IntYear(2019)),
      Pub(<<"a", "b", "c">>, NullYear),
      Pub(<<"z">>, Y2021),
      Pub(<<"x", "y">>, YUnparsable) }

SeqsUpTo(S, n) == UNION {[1..k -> S] : k \in 0..n}

\* What the operator types at the prompt of line 253.
Responses == { <<>>, <<" ", "Y">>, <<"n">> }

(***************************************************************************)
(* PublicationComparator (compare_publications.py).                        *)
(***************************************************************************)
\* _load_json, lines 31-39: a file that does not exist loads as {}, which
\* the absent file stands for (its publications are the empty list of
\* .get('publications', [])).
comparator_load_json(file) ==
    IF file.kind = "absent" THEN AbsentFile ELSE file

\* __init__, lines 19-29: the result lists start empty.  cv_matched_indices,
\* scholar_matched_indices and i are the locals of find_matches; threshold
\* and potential_threshold are its arguments.  calls and first_report are
\* history: the calls of find_matches made so far and the result lists as
\* the first call left them.
FreshComparator ==
    [pc |-> "new", cv_data |-> AbsentFile, scholar_data |-> AbsentFile,
     calls |-> 0, first_report |-> <<>>,
     cv_pubs |-> <<>>, scholar_pubs |-> <<>>,
     only_in_cv |-> <<>>, only_in_scholar |-> <<>>,
     matched |-> <<>>, potential_matches |-> <<>>,
     cv_matched_indices |-> {}, scholar_matched_indices |-> {},
     i |-> 1, threshold |-> DuplicateThreshold,
     potential_threshold |-> PotentialThreshold]

\* extract_cv_publications, lines 87-93: the record built from the title and
\* the year ('' or four digits) found in a line of the CV.
CvRecord(title, year) ==
    [title |-> title, title_normalized |-> normalize_title(title),
     year |-> year, source |-> "cv"]

\* extract_scholar_publications, lines 104-119: records with a full_text are
\* skipped; the year is str(pub.get('year', '')).
RECURSIVE extract_scholar_publications(_)
extract_scholar_publications(pubs) ==
    IF pubs = <<>> THEN <<>>
    ELSE IF Head(pubs).full_text
         THEN extract_scholar_publications(Tail(pubs))
         ELSE <<[title |-> Head(pubs).title,
                 title_normalized |-> normalize_title(Head(pubs).title),
                 year |-> YearStr(Head(pubs).year),
                 source |-> "scholar"]>>
              \o extract_scholar_publications(Tail(pubs))

\* lines 150-158: the score of one (cv, scholar) comparison.
MatchScore(cv_pub, scholar_pub) ==
    LET score == similarity_score(cv_pub.title_normalized,
                                  scholar_pub.title_normalized)
    IN  IF cv_pub.year # <<>> /\ scholar_pub.year # <<>>
           /\ cv_pub.year # scholar_pub.year
        THEN YearPenalty(score)
        ELSE score

\* BestMatch in which a later record with an equal score replaces the best.
RECURSIVE BestMatch_last_wins(_, _, _, _, _, _)
BestMatch_last_wins(cv_pub, scholar_pubs, scholar_matched_indices, j, best_score, best_match_idx) ==
    IF j > Len(scholar_pubs)
    THEN [best_score |-> best_score, best_match_idx |-> best_match_idx]
    ELSE IF j \in scholar_matched_indices
         THEN BestMatch_last_wins(cv_pub, scholar_pubs, scholar_matched_indices,
                                  j + 1, best_score, best_match_idx)
         ELSE LET score == MatchScore(cv_pub, scholar_pubs[j])
              IN  IF Geq(score, best_score) /\ Gt(score, ZeroScore)
                  THEN BestMatch_last_wins(cv_pub, scholar_pubs,
                                           scholar_matched_indices, j + 1, score, j)
                  ELSE BestMatch_last_wins(cv_pub, scholar_pubs,
                                           scholar_matched_indices, j + 1,
                                           best_score, best_match_idx)

\* BestMatch that also considers the scholar records already matched.
RECURSIVE BestMatch_ignoring_claims(_, _, _, _, _, _)
BestMatch_ignoring_claims(cv_pub, scholar_pubs, scholar_matched_indices, j, best_score, best_match_idx) ==
    IF j > Len(scholar_pubs)
    THEN [best_score |-> best_score, best_match_idx |-> best_match_idx]
    ELSE LET score == MatchScore(cv_pub, scholar_pubs[j])
         IN  IF Gt(score, best_score)
             THEN BestMatch_ignoring_claims(cv_pub, scholar_pubs,
                                            scholar_matched_indices, j + 1, score, j)
             ELSE BestMatch_ignoring_claims(cv_pub, scholar_pubs,
                                            scholar_matched_indices, j + 1,
                                            best_score, best_match_idx)

\* The inner loop, lines 145-162, from position j on: the best score over the
\* scholar records not yet matched and the position that reached it first
\* (best_match_idx = 0 stands for -1).
RECURSIVE BestMatch(_, _, _, _, _, _)
BestMatch(cv_pub, scholar_pubs, scholar_matched_indices, j, best_score, best_match_idx) ==
    IF j > Len(scholar_pubs)
    THEN [best_score |-> best_score, best_match_idx |-> best_match_idx]
    ELSE IF j \in scholar_matched_indices
         THEN BestMatch(cv_pub, scholar_pubs, scholar_matched_indices, j + 1,
                        best_score, best_match_idx)
         ELSE LET score == MatchScore(cv_pub, scholar_pubs[j])
              IN  IF Gt(score, best_score)
                  THEN BestMatch(cv_pub, scholar_pubs, scholar_matched_indices,
                                 j + 1, score, j)
                  ELSE BestMatch(cv_pub, scholar_pubs, scholar_matched_indices,
                                 j + 1, best_score, best_match_idx)

\* MatchOne with the two thresholds tested in the wrong order.
MatchOne_potential_first(self) ==
    LET cv_pub == self.cv_pubs[self.i]
        b == BestMatch(cv_pub, self.scholar_pubs, self.scholar_matched_indices,
                       1, ZeroScore, 0)
        pair == [cv |-> cv_pub, scholar |-> self.scholar_pubs[b.best_match_idx],
                 score |-> b.best_score,
                 cv_idx |-> self.i, scholar_idx |-> b.best_match_idx]
    IN  IF Geq(b.best_score, self.potential_threshold)
        THEN [self EXCEPT !.potential_matches = Append(@, pair),
                          !.cv_matched_indices = @ \cup {self.i},
                          !.scholar_matched_indices = @ \cup {b.best_match_idx},
                          !.i = @ + 1]
        ELSE [self EXCEPT !.i = @ + 1]

\* MatchOne that forgets to mark the scholar record as matched.
MatchOne_no_claim(self) ==
    LET cv_pub == self.cv_pubs[self.i]
        b == BestMatch(cv_pub, self.scholar_pubs, self.scholar_matched_indices,
                       1, ZeroScore, 0)
        pair == [cv |-> cv_pub, scholar |-> self.scholar_pubs[b.best_match_idx],
                 score |-> b.best_score,
                 cv_idx |-> self.i, scholar_idx |-> b.best_match_idx]
    IN  IF Geq(b.best_score, self.threshold)
        THEN [self EXCEPT !.matched = Append(@, pair),
                          !.cv_matched_indices = @ \cup {self.i},
                          !.i = @ + 1]
        ELSE IF Geq(b.best_score, self.potential_threshold)
             THEN [self EXCEPT !.potential_matches = Append(@, pair),
                               !.cv_matched_indices = @ \cup {self.i},
                               !.i = @ + 1]
             ELSE [self EXCEPT !.i = @ + 1]

\* One pass of the outer loop body, lines 141-182, for cv_pubs[i].  A pair
\* keeps the two records and the score, with the positions of the records
\* in cv_pubs and scholar_pubs.
MatchOne(self) ==
    LET cv_pub == self.cv_pubs[self.i]
        b == BestMatch(cv_pub, self.scholar_pubs, self.scholar_matched_indices,
                       1, ZeroScore, 0)
        pair == [cv |-> cv_pub, scholar |-> self.scholar_pubs[b.best_match_idx],
                 score |-> b.best_score,
                 cv_idx |-> self.i, scholar_idx |-> b.best_match_idx]
    IN  IF Geq(b.best_score, self.threshold)
        THEN [self EXCEPT !.matched = Append(@, pair),
                          !.cv_matched_indices = @ \cup {self.i},
                          !.scholar_matched_indices = @ \cup {b.best_match_idx},
                          !.i = @ + 1]
        ELSE IF Geq(b.best_score, self.potential_threshold)
             THEN [self EXCEPT !.potential_matches = Append(@, pair),
                               !.cv_matched_indices = @ \cup {self.i},
                               !.scholar_matched_indices = @ \cup {b.best_match_idx},
                               !.i = @ + 1]
             ELSE [self EXCEPT !.i = @ + 1]

\* The records of s at the positions outside idx, in order.
RECURSIVE Unmatched(_, _, _)
Unmatched(s, idx, k) ==
    IF k > Len(s) THEN <<>>
    ELSE (IF k \in idx THEN <<>> ELSE <<s[k]>>) \o Unmatched(s, idx, k + 1)

\* CollectUnmatched that returns at once when there is no scholar record.
CollectUnmatched_without_scholar(self) ==
    IF self.scholar_pubs = <<>> THEN self
    ELSE [self EXCEPT !.only_in_cv = @ \o Unmatched(self.cv_pubs,
                                                    self.cv_matched_indices, 1),
                      !.only_in_scholar = @ \o Unmatched(self.scholar_pubs,
                                                         self.scholar_matched_indices, 1)]

\* lines 184-192
CollectUnmatched(self) ==
    [self EXCEPT !.only_in_cv = @ \o Unmatched(self.cv_pubs, self.cv_matched_indices, 1),
                 !.only_in_scholar = @ \o Unmatched(self.scholar_pubs,
                                                    self.scholar_matched_indices, 1)]

(***************************************************************************)
(* State.                                                                  *)
(*   files    the store files, by path                                     *)
(*   backups  the backup files, by <<output path, timestamp>>              *)
(*   now      the clock, in the seconds the backup's name is stamped with  *)
(*   upd      the IncrementalUpdater of each invocation of main, with the  *)
(*            position main has reached                                    *)
(*   procs    the invocations of main                                      *)
(*   cmp      the PublicationComparator, with the position find_matches    *)
(*            has reached                                                  *)
(*   call     a call of normalize_title or similarity_score made on its    *)
(*            own: the arguments and what was returned                     *)
(***************************************************************************)
VARIABLES files, backups, now, upd, procs, cmp, call

vars == <<files, backups, now, upd, procs, cmp, call>>

BackupKeys == Paths \X (0..MaxTime)

FreshUpdater ==
    [pc |-> "start", error |-> "none",
     existing_path |-> DefaultPath, existing_data |-> AbsentFile,
     existing_pubs |-> <<>>, new_pubs |-> <<>>,
     truly_new |-> <<>>, duplicates |-> <<>>, potential_duplicates |-> <<>>,
     response |-> <<>>, asked |-> FALSE,
     output_path |-> DefaultPath, backup |-> TRUE,
     all_pubs |-> <<>>, merged_data |-> AbsentFile,
     \* history: merge_and_save was entered, and what its output file then held
     merge_entered |-> FALSE, pre_merge |-> AbsentFile]

\* No call of normalize_title or similarity_score on its own is under way.
NoCall == [fn |-> "none", pc |-> "idle"]

StoreDoc(pubs) == Doc(pubs, Len(pubs), 0)

\* The files main may find.  The default store holds up to MaxStore records
\* or is absent; when there is a store at the path of argv[2] as well, the
\* default store is absent, empty or holds one record.
DefaultStores ==
    {AbsentFile} \cup {StoreDoc(E) : E \in SeqsUpTo(ExistingPool, MaxStore)}
CustomStore == StoreDoc(<<Pub(<<"a", "b", "c">>, Y2019)>>)
InitialFiles ==
    {[p \in Paths |-> IF p = DefaultPath THEN fd ELSE AbsentFile] :
        fd \in DefaultStores}
    \cup
    {[p \in Paths |-> IF p = DefaultPath THEN fd ELSE CustomStore] :
        fd \in {AbsentFile, StoreDoc(<<>>), StoreDoc(<<Pub(<<"x", "y">>, AbsentYear)>>)}}

Init ==
    /\ procs = {1}
    /\ files \in InitialFiles
    /\ backups = [k \in BackupKeys |-> AbsentFile]
    /\ now = 0
    /\ upd = [u \in procs |-> FreshUpdater]
    /\ cmp = FreshComparator
    /\ call = NoCall

Self(u) == upd[u]

(***************************************************************************)
(* main, lines 212-233: the paths of argv, the store created from the new  *)
(* file when there is none, and the updater's construction (lines 29-40).  *)
(* The new file always exists here: main exits at line 221 otherwise.      *)
(***************************************************************************)
\* lines 223-230: no existing store, so the new file is copied to its path.
CreateStoreFrom(u, batches) ==
    /\ Self(u).pc = "start"
    /\ \E ep \in Paths, N \in batches :
          /\ files[ep].kind = "absent"
          /\ files' = [files EXCEPT ![ep] = StoreDoc(N)]
          /\ upd' = [upd EXCEPT ![u].pc = "done", ![u].existing_path = ep,
                                ![u].new_pubs = N]
    /\ UNCHANGED <<backups, now, procs, cmp, call>>

\* The new files explored by Spec.
Batches == SeqsUpTo(BatchPool, MaxBatch)

CreateStore(u) == CreateStoreFrom(u, Batches)

\* _load_json, lines 42-48: json.load raises on a file that is not a whole
\* document.
ConstructFrom(u, batches) ==
    /\ Self(u).pc = "start"
    /\ \E ep \in Paths, N \in batches, b \in BOOLEAN :
          /\ files[ep].kind # "absent"
          /\ upd' = [upd EXCEPT ![u] =
                IF files[ep].kind = "partial"
                THEN [@ EXCEPT !.pc = "crashed", !.error = "load",
                               !.existing_path = ep]
                ELSE [@ EXCEPT !.pc = "loaded", !.existing_path = ep,
                               !.existing_data = files[ep],
                               !.existing_pubs = files[ep].publications,
                               !.new_pubs = N, !.backup = b,
                               !.truly_new = <<>>, !.duplicates = <<>>,
                               !.potential_duplicates = <<>>]]
    /\ UNCHANGED <<files, backups, now, procs, cmp, call>>

Construct(u) == ConstructFrom(u, Batches)

\* line 236
FindNew(u) ==
    /\ Self(u).pc = "loaded"
    /\ upd' = [upd EXCEPT ![u] =
          [find_new_publications(@, DuplicateThreshold) EXCEPT !.pc = "analyzed"]]
    /\ UNCHANGED <<files, backups, now, procs, cmp, call>>

\* should_merge with the (Y/n) rule of line 258 applied to every prompt.
should_merge_default_yes(self, response) ==
    Lower(Strip(response)) # <<"n">>

\* lines 255-258
should_merge(self, response) ==
    LET answer == Lower(Strip(response))
    IN  IF self.potential_duplicates # <<>>
        THEN answer = <<"y">>
        ELSE answer # <<"n">>

\* lines 242-266: the prompt and the operator's answer.
Answer(u) ==
    /\ Self(u).pc = "analyzed"
    /\ Self(u).truly_new # <<>> \/ Self(u).potential_duplicates # <<>>
    /\ \E response \in Responses :
          upd' = [upd EXCEPT ![u].response = response, ![u].asked = TRUE,
                             ![u].pc = IF should_merge(Self(u), response)
                                       THEN "merge" ELSE "done"]
    /\ UNCHANGED <<files, backups, now, procs, cmp, call>>

\* lines 267-268: nothing to add, nothing is asked.
NothingToAdd(u) ==
    /\ Self(u).pc = "analyzed"
    /\ Self(u).truly_new = <<>> /\ Self(u).potential_duplicates = <<>>
    /\ upd' = [upd EXCEPT ![u].pc = "done"]
    /\ UNCHANGED <<files, backups, now, procs, cmp, call>>

(***************************************************************************)
(* merge_and_save, lines 114-151, as main calls it: output_path is the     *)
(* default path.  backup is the caller's flag.                             *)
(***************************************************************************)
\* lines 123-127: shutil.copy of the existing file to
\* <output_path>.backup.<timestamp>.
Backup(u) ==
    /\ Self(u).pc = "merge"
    /\ IF Self(u).backup /\ files[Self(u).existing_path].kind # "absent"
       THEN backups' = [backups EXCEPT ![<<Self(u).output_path, now>>] =
                           files[Self(u).existing_path]]
       ELSE UNCHANGED backups
    /\ upd' = [upd EXCEPT ![u].pc = "sort", ![u].merge_entered = TRUE,
                          ![u].pre_merge = files[Self(u).output_path]]
    /\ UNCHANGED <<files, now, procs, cmp, call>>

\* BackupFail with the exception caught inside merge_and_save, which then
\* goes on to the merge.
BackupFail_swallowed(u) ==
    /\ Self(u).pc = "merge"
    /\ Self(u).backup /\ files[Self(u).existing_path].kind # "absent"
    /\ \/ UNCHANGED backups
       \/ backups' = [backups EXCEPT ![<<Self(u).output_path, now>>] = PartialFile]
    /\ upd' = [upd EXCEPT ![u].pc = "sort", ![u].error = "backup",
                          ![u].merge_entered = TRUE,
                          ![u].pre_merge = files[Self(u).output_path]]
    /\ UNCHANGED <<files, now, procs, cmp, call>>

\* shutil.copy raises: the backup file is not written, or is left cut short.
\* Nothing in merge_and_save or in main catches the exception.
BackupFail(u) ==
    /\ Self(u).pc = "merge"
    /\ Self(u).backup /\ files[Self(u).existing_path].kind # "absent"
    /\ \/ UNCHANGED backups
       \/ backups' = [backups EXCEPT ![<<Self(u).output_path, now>>] = PartialFile]
    /\ upd' = [upd EXCEPT ![u].pc = "crashed", ![u].error = "backup",
                          ![u].merge_entered = TRUE,
                          ![u].pre_merge = files[Self(u).output_path]]
    /\ UNCHANGED <<files, now, procs, cmp, call>>

\* merged_publications with the whole batch appended instead of truly_new.
merged_publications_whole_batch(self) ==
    SortByYearDesc(self.existing_pubs \o self.new_pubs)

\* lines 137-140: existing_pubs + truly_new, sorted by year, descending.
merged_publications(self) ==
    SortByYearDesc(self.existing_pubs \o self.truly_new)

\* Merge that reads the store again and merges truly_new into what it holds
\* now.
Merge_rereading(u) ==
    /\ Self(u).pc = "sort"
    /\ LET current == files[Self(u).existing_path].publications
       IN  upd' = [upd EXCEPT ![u] =
              IF SortRaises(current \o Self(u).truly_new)
              THEN [@ EXCEPT !.pc = "crashed", !.error = "sort"]
              ELSE [@ EXCEPT !.pc = "write",
                             !.all_pubs = SortByYearDesc(current \o Self(u).truly_new),
                             !.merged_data =
                                 Doc(SortByYearDesc(current \o Self(u).truly_new),
                                     Len(current \o Self(u).truly_new), now)]]
    /\ UNCHANGED <<files, backups, now, procs, cmp, call>>

\* lines 130-144: the merged document; the key of the sort may raise.
Merge(u) ==
    /\ Self(u).pc = "sort"
    /\ upd' = [upd EXCEPT ![u] =
          IF SortRaises(@.existing_pubs \o @.truly_new)
          THEN [@ EXCEPT !.pc = "crashed", !.error = "sort"]
          ELSE [@ EXCEPT !.pc = "write",
                         !.all_pubs = merged_publications(Self(u)),
                         !.merged_data =
                             Doc(merged_publications(Self(u)),
                                 Len(merged_publications(Self(u))), now)]]
    /\ UNCHANGED <<files, backups, now, procs, cmp, call>>

\* line 148: open(output_path, 'w') truncates the file.
OpenOutput(u) ==
    /\ Self(u).pc = "write"
    /\ files' = [files EXCEPT ![Self(u).output_path] = PartialFile]
    /\ upd' = [upd EXCEPT ![u].pc = "writing"]
    /\ UNCHANGED <<backups, now, procs, cmp, call>>

\* line 148: open raises and nothing is touched.
OpenFail(u) ==
    /\ Self(u).pc = "write"
    /\ upd' = [upd EXCEPT ![u].pc = "crashed", ![u].error = "open"]
    /\ UNCHANGED <<files, backups, now, procs, cmp, call>>

\* line 149: json.dump writes the whole document.
WriteDone(u) ==
    /\ Self(u).pc = "writing"
    /\ files' = [files EXCEPT ![Self(u).output_path] = Self(u).merged_data]
    /\ upd' = [upd EXCEPT ![u].pc = "done"]
    /\ UNCHANGED <<backups, now, procs, cmp, call>>

\* line 149: the write raises part-way (an I/O error, a full disk).
WriteFail(u) ==
    /\ Self(u).pc = "writing"
    /\ upd' = [upd EXCEPT ![u].pc = "crashed", ![u].error = "write"]
    /\ UNCHANGED <<files, backups, now, procs, cmp, call>>

\* A second passes.  The clock is read by merge_and_save alone (lines 124 and
\* 143), so it is advanced only while some updater is about to read it.
Tick ==
    /\ now < MaxTime
    /\ \E u \in procs : Self(u).pc \in {"merge", "sort"}
    /\ now' = now + 1
    /\ UNCHANGED <<files, backups, upd, procs, cmp, call>>

Next ==
    \/ \E u \in procs : CreateStore(u)
    \/ \E u \in procs : Construct(u)
    \/ \E u \in procs : FindNew(u)
    \/ \E u \in procs : Answer(u)
    \/ \E u \in procs : NothingToAdd(u)
    \/ \E u \in procs : Backup(u)
    \/ \E u \in procs : BackupFail(u)
    \/ \E u \in procs : Merge(u)
    \/ \E u \in procs : OpenOutput(u)
    \/ \E u \in procs : OpenFail(u)
    \/ \E u \in procs : WriteDone(u)
    \/ \E u \in procs : WriteFail(u)
    \/ Tick

Spec == Init /\ [][Next]_vars

(***************************************************************************)
(* The comparison tool: main of compare_publications.py, lines 300-330.    *)
(* A missing data file loads as {} and gives an empty list.                *)
(***************************************************************************)
CvPool ==
    { CvRecord(<<"a", "b", "c">>, <<"2", "0", "1", "9">>),
      CvRecord(<<"A", "b", "c">>, <<"2", "0", "2", "0">>),
      CvRecord(<<"a", "b">>, <<>>),
      CvRecord(<<"x", "y">>, <<>>) }

ScholarPub(t, y, ft) == [title |-> t, year |-> y, full_text |-> ft]

ScholarPool ==
    { ScholarPub(<<"A", "b", "c", ".">>, IntYear(2019), FALSE),
      ScholarPub(<<"a", "b", "c">>, NullYear, FALSE),
      ScholarPub(<<"x", " ", "y">>, AbsentYear, FALSE),
      ScholarPub(<<"a", "b", "c">>, Y2019, TRUE) }

\* The (threshold, potential_threshold) arguments: the defaults, and 1.0, 0.5.
ThresholdPairs ==
    { <<DuplicateThreshold, PotentialThreshold>>, << <<1, 1>>, <<1, 2>> >> }

InitRec ==
    /\ procs = {}
    /\ upd = <<>>
    /\ files = [p \in Paths |-> AbsentFile]
    /\ backups = [k \in BackupKeys |-> AbsentFile]
    /\ now = 0
    /\ cmp = FreshComparator
    /\ call = NoCall

updVars == <<files, backups, now, upd, procs, call>>

\* The two data files: absent, or a document with its records.
CvFiles == {AbsentFile} \cup {StoreDoc(cv) : cv \in SeqsUpTo(CvPool, MaxCv)}
ScholarFiles ==
    {AbsentFile} \cup {StoreDoc(sch) : sch \in SeqsUpTo(ScholarPool, MaxScholar)}

\* lines 306-316: the comparator is constructed and the records extracted.
Extract ==
    /\ cmp.pc = "new"
    /\ \E cvf \in CvFiles, schf \in ScholarFiles :
          cmp' = [cmp EXCEPT
                     !.pc = "extracted",
                     !.cv_data = comparator_load_json(cvf),
                     !.scholar_data = comparator_load_json(schf),
                     !.cv_pubs = comparator_load_json(cvf).publications,
                     !.scholar_pubs = extract_scholar_publications(
                                         comparator_load_json(schf).publications)]
    /\ UNCHANGED updVars

\* find_matches is entered, lines 128-138.
BeginMatch ==
    /\ cmp.pc = "extracted"
    /\ \E th \in ThresholdPairs :
          cmp' = [cmp EXCEPT !.pc = "matching", !.i = 1, !.calls = 1,
                             !.threshold = th[1], !.potential_threshold = th[2],
                             !.cv_matched_indices = {},
                             !.scholar_matched_indices = {}]
    /\ UNCHANGED updVars

\* lines 141-182, one cv record
MatchStep ==
    /\ cmp.pc = "matching"
    /\ cmp.i <= Len(cmp.cv_pubs)
    /\ cmp' = MatchOne(cmp)
    /\ UNCHANGED updVars

\* lines 184-192
Collect ==
    /\ cmp.pc = "matching"
    /\ cmp.i > Len(cmp.cv_pubs)
    /\ cmp' = [CollectUnmatched(cmp) EXCEPT !.pc = "done"]
    /\ UNCHANGED updVars

NextRec == Extract \/ BeginMatch \/ MatchStep \/ Collect

SpecRec == InitRec /\ [][NextRec]_vars

(***************************************************************************)
(* Properties of the comparator.                                           *)
(***************************************************************************)
Pairs == cmp.matched \o cmp.potential_matches

PairedCv == {Pairs[k].cv_idx : k \in 1..Len(Pairs)}
PairedScholar == {Pairs[k].scholar_idx : k \in 1..Len(Pairs)}

\* C4: after find_matches the matched pairs, the potential pairs, onlyInA and
\* onlyInB are disjoint and cover every record exactly once: a record of A is
\* the A-side of exactly one pair or is in onlyInA, a record of B is the
\* B-side of exactly one pair or is in onlyInB, no record of B is in two
\* pairs.
C4_ReportPartitionsInputs ==
    cmp.pc = "done" =>
       /\ \A k \in 1..Len(Pairs) :
             /\ Pairs[k].cv_idx \in 1..Len(cmp.cv_pubs)
             /\ Pairs[k].scholar_idx \in 1..Len(cmp.scholar_pubs)
             /\ Pairs[k].cv = cmp.cv_pubs[Pairs[k].cv_idx]
             /\ Pairs[k].scholar = cmp.scholar_pubs[Pairs[k].scholar_idx]
       /\ \A k, l \in 1..Len(Pairs) :
             k # l => /\ Pairs[k].cv_idx # Pairs[l].cv_idx
                      /\ Pairs[k].scholar_idx # Pairs[l].scholar_idx
       /\ cmp.only_in_cv = Unmatched(cmp.cv_pubs, PairedCv, 1)
       /\ cmp.only_in_scholar = Unmatched(cmp.scholar_pubs, PairedScholar, 1)
       /\ Len(Pairs) + Len(cmp.only_in_cv) = Len(cmp.cv_pubs)
       /\ Len(Pairs) + Len(cmp.only_in_scholar) = Len(cmp.scholar_pubs)

\* A report of two cv and two scholar records with one pair, one record only
\* in the CV and one only in Scholar.
C4_Witness ==
    /\ cmp.pc = "done"
    /\ Len(cmp.cv_pubs) = 2 /\ Len(cmp.scholar_pubs) = 2
    /\ Len(Pairs) = 1
    /\ cmp.only_in_cv # <<>>
    /\ cmp.only_in_scholar # <<>>

\* The scores of cv record a against the scholar records not in claimed.
UnclaimedScores(a, claimed) ==
    {MatchScore(a, cmp.scholar_pubs[j]) :
        j \in (1..Len(cmp.scholar_pubs)) \ claimed}

\* The winning score: the maximum over the unclaimed records (0 with none).
WinningScore(a, claimed) ==
    CHOOSE s \in UnclaimedScores(a, claimed) \cup {ZeroScore} :
       \A t \in UnclaimedScores(a, claimed) \cup {ZeroScore} : Geq(s, t)

\* C5: the winning score s of record a decides the outcome of its step:
\* s >= t_high appends the pair to matched; t_low <= s < t_high appends it to
\* potential_matches; s < t_low records no pair, leaves a unmatched (so a
\* goes to only_in_cv) and leaves the claimed records as they were.
C5_WinningScoreDecides ==
    [][(cmp.pc = "matching" /\ cmp.i <= Len(cmp.cv_pubs)) =>
          LET a == cmp.cv_pubs[cmp.i]
              s == WinningScore(a, cmp.scholar_matched_indices)
          IN  /\ Geq(s, cmp.threshold) =>
                    /\ Len(cmp'.matched) = Len(cmp.matched) + 1
                    /\ cmp'.matched[Len(cmp'.matched)].cv_idx = cmp.i
                    /\ SameScore(cmp'.matched[Len(cmp'.matched)].score, s)
                    /\ cmp'.potential_matches = cmp.potential_matches
              /\ (Geq(s, cmp.potential_threshold) /\ ~Geq(s, cmp.threshold)) =>
                    /\ Len(cmp'.potential_matches) = Len(cmp.potential_matches) + 1
                    /\ cmp'.potential_matches[Len(cmp'.potential_matches)].cv_idx
                          = cmp.i
                    /\ SameScore(cmp'.potential_matches[
                                    Len(cmp'.potential_matches)].score, s)
                    /\ cmp'.matched = cmp.matched
              /\ ~Geq(s, cmp.potential_threshold) =>
                    /\ cmp'.matched = cmp.matched
                    /\ cmp'.potential_matches = cmp.potential_matches
                    /\ cmp'.scholar_matched_indices = cmp.scholar_matched_indices
                    /\ cmp.i \notin cmp'.cv_matched_indices]_vars

\* A finished run in which one winning score reached the threshold and
\* another only the potential threshold.
C5_Witness ==
    /\ cmp.pc = "done"
    /\ cmp.matched # <<>>
    /\ cmp.potential_matches # <<>>

(***************************************************************************)
(* Properties of the incremental updater.                                  *)
(***************************************************************************)
Range(s) == {s[k] : k \in 1..Len(s)}
Count(s, x) == Cardinality({k \in 1..Len(s) : s[k] = x})
IsPermutation(s, t) ==
    /\ Len(s) = Len(t)
    /\ \A x \in Range(s) \cup Range(t) : Count(s, x) = Count(t, x)

\* The merge of updater u has written its whole document.
Merged(u) == Self(u).merge_entered /\ Self(u).pc = "done"

\* A backup file of output path p holds content c.
HasCheckpoint(p, c) == \E k \in BackupKeys : k[1] = p /\ backups[k] = c

\* C1: a write of the merged store that fails part-way leaves the persisted
\* store identical to its content before the merge (the content of the
\* checkpoint), and no state holds a truncated or partly written store.
C1_FailedWriteLeavesStore ==
    \A u \in procs :
       Self(u).error = "write" =>
          /\ files[Self(u).output_path].kind # "partial"
          /\ files[Self(u).output_path] = Self(u).pre_merge
          /\ Self(u).backup =>
                HasCheckpoint(Self(u).output_path, files[Self(u).output_path])

\* C2: with backup not disabled, whenever the store merge_and_save writes to
\* differs from its pre-merge content, a checkpoint that is a full copy of
\* that pre-merge content exists.
C2_CheckpointBeforeMutation ==
    \A u \in procs :
       (Self(u).merge_entered /\ Self(u).backup
           /\ files[Self(u).output_path] # Self(u).pre_merge)
       => HasCheckpoint(Self(u).output_path, Self(u).pre_merge)

\* An explicit affirmative: the letter y, in either case, and nothing else
\* but surrounding whitespace.
IsAffirmative(r) ==
    \E i \in 1..Len(r) :
       /\ r[i] \in {"y", "Y"}
       /\ \A j \in 1..Len(r) : j # i => r[j] \in Whitespace

\* C3: with at least one potential duplicate in the report, a step of the
\* updater changes the stores or the checkpoints only when the operator's
\* answer was an explicit affirmative.
C3_ConfirmationGate ==
    [][\A u \in procs :
          (/\ upd'[u] # upd[u]
           /\ Self(u).potential_duplicates # <<>>
           /\ (files' # files \/ backups' # backups))
          => (Self(u).asked /\ IsAffirmative(Self(u).response))]_vars

C3_Witness ==
    \E u \in procs :
       /\ Merged(u)
       /\ Self(u).potential_duplicates # <<>>
       /\ IsAffirmative(Self(u).response)
       /\ files[Self(u).output_path] = Self(u).merged_data
       /\ files[Self(u).output_path] # Self(u).pre_merge

\* The updater has run find_new_publications.
Analyzed(u) == Self(u).pc \notin {"start", "loaded"} /\ Self(u).error # "load"
               /\ Self(u).existing_data.kind = "doc"

\* The positions of the loaded collection E whose score against n reaches
\* the duplicate threshold.
DuplicatePositions(u, n) ==
    {j \in 1..Len(Self(u).existing_data.publications) :
        Geq(DedupScore(n, Self(u).existing_data.publications[j]),
            DuplicateThreshold)}

\* C6: find_new_publications leaves the existing collection E as it was
\* loaded, and every new record is compared against the whole of E: it is a
\* Duplicate exactly when some record of the whole of E reaches the
\* threshold, and its partner is the first such record of E.
C6_ExistingNeverDepleted ==
    \A u \in procs :
       /\ Analyzed(u) =>
             Self(u).existing_pubs = Self(u).existing_data.publications
       /\ Self(u).pc = "analyzed" =>
             /\ Len(Self(u).duplicates) =
                   Cardinality({k \in 1..Len(Self(u).new_pubs) :
                                   DuplicatePositions(u, Self(u).new_pubs[k]) # {}})
             /\ \A k \in 1..Len(Self(u).duplicates) :
                   LET d == Self(u).duplicates[k]
                   IN  /\ DuplicatePositions(u, d.new) # {}
                       /\ d.idx = MinOf(DuplicatePositions(u, d.new))
                       /\ d.existing = Self(u).existing_data.publications[d.idx]

\* One existing record is the Duplicate partner of two records of the batch.
C6_Witness ==
    \E u \in procs :
       /\ Analyzed(u)
       /\ \E k, l \in 1..Len(Self(u).duplicates) :
             k # l /\ Self(u).duplicates[k].idx = Self(u).duplicates[l].idx

\* C7: after a successful merge the store holds a permutation of the
\* records of E together with the TrulyNew records (so no Duplicate or
\* PotentialDuplicate record is added), and the stored count equals the
\* length of the record sequence.
C7_MergeKeepsAndAdds ==
    \A u \in procs :
       Merged(u) =>
          LET store == files[Self(u).output_path]
          IN  /\ store.kind = "doc"
              /\ IsPermutation(store.publications,
                               Self(u).existing_data.publications
                                  \o Self(u).truly_new)
              /\ Len(store.publications) + Len(Self(u).duplicates)
                    + Len(Self(u).potential_duplicates)
                    = Len(Self(u).existing_data.publications)
                         + Len(Self(u).new_pubs)
              /\ store.total_publications = Len(store.publications)

C7_Witness ==
    \E u \in procs :
       /\ Merged(u)
       /\ Self(u).existing_pubs # <<>>
       /\ Self(u).truly_new # <<>>
       /\ Self(u).duplicates # <<>> \/ Self(u).potential_duplicates # <<>>
       /\ files[Self(u).output_path].publications
             # Self(u).existing_pubs \o Self(u).truly_new

\* A year that is missing: the key absent, null, or the empty string.
MissingYear(y) == y.tag \in {"absent", "null"} \/ (y.tag = "str" /\ y.s = <<>>)

\* C8: after a successful merge the store's records are in non-increasing
\* order of year, every record with a missing year after every record that
\* has one.
C8_SortedByYearDescending ==
    \A u \in procs :
       Merged(u) =>
          LET pubs == files[Self(u).output_path].publications
          IN  \A i, j \in 1..Len(pubs) :
                 i < j =>
                    /\ YearSortKey(pubs[i].year).v >= YearSortKey(pubs[j].year).v
                    /\ ~(MissingYear(pubs[i].year) /\ ~MissingYear(pubs[j].year))

\* A completed merge that had to reorder: a record without a year stood
\* before a record with one.
C8_Witness ==
    \E u \in procs :
       /\ Merged(u)
       /\ LET before == Self(u).existing_pubs \o Self(u).truly_new
          IN  \E i, j \in 1..Len(before) :
                 /\ i < j
                 /\ MissingYear(before[i].year)
                 /\ ~MissingYear(before[j].year)
       /\ \E p \in Range(files[Self(u).output_path].publications) :
             MissingYear(p.year)

\* C9: a record whose year is present but not parseable as an integer does
\* not make the merge raise.
C9_UnparsableYearDoesNotRaise ==
    \A u \in procs :
       (Self(u).merge_entered
           /\ \E p \in Range(Self(u).existing_pubs \o Self(u).truly_new) :
                 ~YearSortKey(p.year).ok)
       => Self(u).error # "sort"

\* A record carries a year: it is not missing and it parses as an integer.
CarriesYear(y) == ~MissingYear(y) /\ YearSortKey(y).ok

\* The score the claim gives a pair: the base similarity, times 0.7 exactly
\* when both records carry a year and the two years differ.
ClaimedScore(new_pub, existing_pub) ==
    LET base == similarity_score(normalize_title(new_pub.title),
                                 normalize_title(existing_pub.title))
    IN  IF /\ CarriesYear(new_pub.year)
           /\ CarriesYear(existing_pub.year)
           /\ YearSortKey(new_pub.year).v # YearSortKey(existing_pub.year).v
        THEN YearPenalty(base)
        ELSE base

\* C10: the score recorded for a pair is the base similarity times 0.7
\* exactly when both records carry a year and the years differ, and the base
\* similarity when either year is missing or unparsable.
C10_YearPenaltyOnlyForTwoYears ==
    \A u \in procs :
       \A d \in Range(Self(u).duplicates) \cup Range(Self(u).potential_duplicates) :
          SameScore(d.score, ClaimedScore(d.new, d.existing))

(***************************************************************************)
(* normalize_title and similarity_score called on their own (they are      *)
(* methods of both classes, with the same body).                           *)
(***************************************************************************)
MaxTitle == 3

\* The curly quotation marks U+201C, U+201D, U+2018 and U+2019, each one
\* character.  str.lower() keeps them, the class [.,;:!?"\'] does not hold
\* them and \s does not match them.
CurlyQuotes == {"U+201C", "U+201D", "U+2018", "U+2019"}

\* The letters str.lower() changes.
Uppercase == {"A", "B", "C", "X", "Y", "N", "M", "F", "R", "W"}

\* The characters of the titles given to normalize_title.
TitleAlphabet == {"A", "b", " ", "\t", ".", "U+201C"}

\* The characters of the normalized titles given to similarity_score.
ScoreAlphabet == {"a", "b", "c", " "}

NormalizedTitles ==
    {t \in SeqsUpTo(ScoreAlphabet, MaxTitle) : normalize_title(t) = t}

NormalizeCall(title) ==
    [fn |-> "normalize_title", pc |-> "called", title |-> title,
     str1 |-> <<>>, str2 |-> <<>>,
     result |-> <<>>, again |-> <<>>, score |-> ZeroScore, swapped |-> ZeroScore]

ScoreCall(str1, str2) ==
    [fn |-> "similarity_score", pc |-> "called", title |-> <<>>,
     str1 |-> str1, str2 |-> str2,
     result |-> <<>>, again |-> <<>>, score |-> ZeroScore, swapped |-> ZeroScore]

InitCall ==
    /\ procs = {}
    /\ upd = <<>>
    /\ files = [p \in Paths |-> AbsentFile]
    /\ backups = [k \in BackupKeys |-> AbsentFile]
    /\ now = 0
    /\ cmp = FreshComparator
    /\ call \in {NormalizeCall(t) : t \in SeqsUpTo(TitleAlphabet, MaxTitle)}
                \cup {ScoreCall(a, b) : a \in NormalizedTitles, b \in NormalizedTitles}

otherVars == <<files, backups, now, upd, procs, cmp>>

\* normalize_title(title)
Normalize ==
    /\ call.fn = "normalize_title" /\ call.pc = "called"
    /\ call' = [call EXCEPT !.pc = "returned",
                            !.result = normalize_title(call.title)]
    /\ UNCHANGED otherVars

\* normalize_title applied to what it returned
NormalizeAgain ==
    /\ call.fn = "normalize_title" /\ call.pc = "returned"
    /\ call' = [call EXCEPT !.pc = "both",
                            !.again = normalize_title(call.result)]
    /\ UNCHANGED otherVars

\* similarity_score(str1, str2)
Score ==
    /\ call.fn = "similarity_score" /\ call.pc = "called"
    /\ call' = [call EXCEPT !.pc = "returned",
                            !.score = similarity_score(call.str1, call.str2)]
    /\ UNCHANGED otherVars

\* similarity_score(str2, str1)
ScoreSwapped ==
    /\ call.fn = "similarity_score" /\ call.pc = "returned"
    /\ call' = [call EXCEPT !.pc = "both",
                            !.swapped = similarity_score(call.str2, call.str1)]
    /\ UNCHANGED otherVars

NextCall == Normalize \/ NormalizeAgain \/ Score \/ ScoreSwapped

SpecCall == InitCall /\ [][NextCall]_vars

\* C11: similarity_score is symmetric: for every pair of normalized titles
\* a and b, score(a, b) equals score(b, a).
C11_ScoreSymmetric ==
    (call.fn = "similarity_score" /\ call.pc = "both")
    => SameScore(call.score, call.swapped)

(***************************************************************************)
(* find_matches on two collections that hold the same records.             *)
(***************************************************************************)
MaxSame == 3

\* Records <<title, year>> with pairwise distinct titles; three of the titles
\* normalize to the same string and a fourth is within the threshold of it.
SamePool ==
    { << <<"a", "b", "c">>, <<"2", "0", "1", "9">> >>,
      << <<"A", "b", "c">>, <<"2", "0", "2", "0">> >>,
      << <<"a", "b", "c", ",">>, <<>> >>,
      << <<"a", "b", "c", "d">>, <<"2", "0", "1", "9">> >>,
      << <<"x", "y">>, <<>> >> }

Injective(s) == \A i, j \in 1..Len(s) : i # j => s[i] # s[j]

Orders(n) == {f \in [1..n -> 1..n] : Injective(f)}

\* lines 306-316, with both files holding the records of R, the scholar file
\* in the order f.
ExtractSame ==
    /\ cmp.pc = "new"
    /\ \E R \in {s \in SeqsUpTo(SamePool, MaxSame) : Injective(s)} :
          \E f \in Orders(Len(R)) :
             LET cv == [k \in 1..Len(R) |-> CvRecord(R[k][1], R[k][2])]
                 sch == [k \in 1..Len(R) |->
                            ScholarPub(R[f[k]][1], StrYear(R[f[k]][2]), FALSE)]
             IN  cmp' = [cmp EXCEPT
                            !.pc = "extracted",
                            !.cv_data = StoreDoc(cv),
                            !.scholar_data = StoreDoc(sch),
                            !.cv_pubs = cv,
                            !.scholar_pubs = extract_scholar_publications(sch)]
    /\ UNCHANGED updVars

NextSame == ExtractSame \/ BeginMatch \/ MatchStep \/ Collect

SpecSame == InitRec /\ [][NextSame]_vars

\* The <<title, year>> of each record of s.
Keys(s) == [k \in 1..Len(s) |-> <<s[k].title, s[k].year>>]

DefaultThresholds ==
    cmp.threshold = DuplicateThreshold /\ cmp.potential_threshold = PotentialThreshold

\* C12: if A and B hold the same records, in any order, with pairwise
\* distinct titles, find_matches with the default thresholds reports exactly
\* |A| matched pairs, no potential pair, and empty only_in_cv and
\* only_in_scholar.
C12_SameRecordsAllMatched ==
    (/\ cmp.pc = "done"
     /\ DefaultThresholds
     /\ IsPermutation(Keys(cmp.cv_pubs), Keys(cmp.scholar_pubs))
     /\ Injective([k \in 1..Len(cmp.cv_pubs) |-> cmp.cv_pubs[k].title]))
    => /\ Len(cmp.matched) = Len(cmp.cv_pubs)
       /\ cmp.potential_matches = <<>>
       /\ cmp.only_in_cv = <<>>
       /\ cmp.only_in_scholar = <<>>

(***************************************************************************)
(* main of update_incremental.py given a new file that holds the records   *)
(* of the store.                                                           *)
(***************************************************************************)
\* The records of the stores: those of both pools and one without a title.
SameBatchPool == ExistingPool \cup BatchPool \cup {Pub(<<>>, Y2019)}

InitSameBatch ==
    /\ procs = {1}
    /\ files \in {[p \in Paths |-> IF p = DefaultPath THEN StoreDoc(E) ELSE AbsentFile] :
                     E \in SeqsUpTo(SameBatchPool, MaxStore)}
    /\ backups = [k \in BackupKeys |-> AbsentFile]
    /\ now = 0
    /\ upd = [u \in procs |-> FreshUpdater]
    /\ cmp = FreshComparator
    /\ call = NoCall

\* line 233 and lines 29-40: the new file holds the records of the store, in
\* the order f.
ConstructSame(u) ==
    /\ Self(u).pc = "start"
    /\ files[DefaultPath].kind = "doc"
    /\ \E f \in Orders(Len(files[DefaultPath].publications)) :
          upd' = [upd EXCEPT ![u] =
                     [@ EXCEPT !.pc = "loaded", !.existing_path = DefaultPath,
                               !.existing_data = files[DefaultPath],
                               !.existing_pubs = files[DefaultPath].publications,
                               !.new_pubs = [k \in DOMAIN f |->
                                               files[DefaultPath].publications[f[k]]],
                               !.truly_new = <<>>, !.duplicates = <<>>,
                               !.potential_duplicates = <<>>]]
    /\ UNCHANGED <<files, backups, now, procs, cmp, call>>

\* With such a batch main reaches line 268: there is nothing to add.
NextSameBatch ==
    \/ \E u \in procs : ConstructSame(u)
    \/ \E u \in procs : FindNew(u)
    \/ \E u \in procs : NothingToAdd(u)

SpecSameBatch == InitSameBatch /\ [][NextSameBatch]_vars

\* C13: deduplicating a batch whose records are the records of the store
\* yields no TrulyNew record, no PotentialDuplicate record and exactly |N|
\* Duplicate classifications.
C13_IdenticalBatchAllDuplicates ==
    \A u \in procs :
       (Analyzed(u)
           /\ IsPermutation(Self(u).new_pubs, Self(u).existing_data.publications))
       => /\ Self(u).truly_new = <<>>
          /\ Self(u).potential_duplicates = <<>>
          /\ Len(Self(u).duplicates) = Len(Self(u).new_pubs)

\* A batch of two records in another order than the store, one of them
\* classified against a record that is not its copy.
C13_Witness ==
    \E u \in procs :
       /\ Analyzed(u)
       /\ Len(Self(u).new_pubs) = 2
       /\ Self(u).new_pubs # Self(u).existing_pubs
       /\ IsPermutation(Self(u).new_pubs, Self(u).existing_data.publications)
       /\ Len(Self(u).duplicates) = 2
       /\ \E k \in 1..2 : Self(u).duplicates[k].new # Self(u).duplicates[k].existing

(***************************************************************************)
(* find_matches called again on the same comparator.                       *)
(***************************************************************************)
MaxCalls == 2

\* The result lists, which generate_report and print_summary read.
Report(self) ==
    [matched |-> self.matched, potential_matches |-> self.potential_matches,
     only_in_cv |-> self.only_in_cv, only_in_scholar |-> self.only_in_scholar]

\* find_matches is entered again with the same arguments, lines 128-138: the
\* two index sets are new locals, the result lists are the attributes that
\* __init__ created and are not reset.
MatchAgain ==
    /\ cmp.pc = "done"
    /\ cmp.calls < MaxCalls
    /\ cmp' = [cmp EXCEPT !.pc = "matching", !.i = 1,
                          !.calls = @ + 1,
                          !.first_report = IF cmp.calls = 1 THEN Report(cmp) ELSE @,
                          !.cv_matched_indices = {},
                          !.scholar_matched_indices = {}]
    /\ UNCHANGED updVars

NextAgain == Extract \/ BeginMatch \/ MatchStep \/ Collect \/ MatchAgain

SpecAgain == InitRec /\ [][NextAgain]_vars

\* C14: a second call of find_matches on the same comparator with the same
\* inputs leaves a report equal to the report of the first call: the same
\* pairs and the same only-in lists, no entry carried over or repeated.
C14_SecondCallSameReport ==
    (cmp.pc = "done" /\ cmp.calls >= 2) => Report(cmp) = cmp.first_report

(***************************************************************************)
(* Further properties of the incremental updater, under Spec.              *)
(***************************************************************************)
\* C15: with no PotentialDuplicate and at least one TrulyNew record in the
\* report the merge proceeds whatever the operator answers: once the prompt
\* has been answered, merge_and_save has been entered or is about to be.
C15_MergeWithoutConfirmation ==
    \A u \in procs :
       (/\ Analyzed(u)
        /\ Self(u).potential_duplicates = <<>>
        /\ Self(u).truly_new # <<>>
        /\ Self(u).asked)
       => (Self(u).pc = "merge" \/ Self(u).merge_entered)

\* C16: when the copy to the checkpoint fails, the failure ends the run (it
\* reaches the caller), the store merge_and_save writes to is never opened
\* and the persisted stores are as they were.
C16_FailedCheckpointAborts ==
    \A u \in procs :
       Self(u).error = "backup" =>
          /\ Self(u).pc = "crashed"
          /\ files[Self(u).output_path] = Self(u).pre_merge
          /\ files[Self(u).output_path].kind # "partial"
          /\ files[Self(u).existing_path] = Self(u).existing_data

\* The copy failed part-way on a run that had records to add to a store that
\* holds records.
C16_Witness ==
    \E u \in procs :
       /\ Self(u).error = "backup"
       /\ Self(u).truly_new # <<>>
       /\ Self(u).existing_data.publications # <<>>
       /\ files[Self(u).existing_path] = Self(u).existing_data
       /\ \E k \in BackupKeys : backups[k].kind = "partial"

\* The records of pubs are in non-increasing order of year, those with a
\* missing year last.
InYearOrder(pubs) ==
    \A i, j \in 1..Len(pubs) :
       i < j =>
          /\ YearSortKey(pubs[i].year).v >= YearSortKey(pubs[j].year).v
          /\ ~(MissingYear(pubs[i].year) /\ ~MissingYear(pubs[j].year))

\* main found no store file and made one (lines 223-230).
Created(u) == Self(u).pc = "done" /\ Self(u).existing_data.kind = "absent"

\* C17: with an empty store, or no store file, and a batch of k records, the
\* report has k TrulyNew records and no Duplicate or PotentialDuplicate, and
\* after the update the store holds exactly those k records in descending
\* order of year.
C17_EmptyStoreTakesWholeBatch ==
    \A u \in procs :
       /\ (Analyzed(u) /\ Self(u).existing_data.publications = <<>>) =>
             /\ Self(u).truly_new = Self(u).new_pubs
             /\ Self(u).duplicates = <<>>
             /\ Self(u).potential_duplicates = <<>>
       /\ ((Merged(u) /\ Self(u).existing_data.publications = <<>>) \/ Created(u)) =>
             /\ files[Self(u).existing_path].kind = "doc"
             /\ IsPermutation(files[Self(u).existing_path].publications,
                              Self(u).new_pubs)
             /\ InYearOrder(files[Self(u).existing_path].publications)

(***************************************************************************)
(* Properties of normalize_title, under SpecCall.                          *)
(***************************************************************************)
\* C18: what normalize_title returns has no uppercase letter, none of the
\* characters . , ; : ! ? nor a straight or curly quote, no run of two or
\* more whitespace characters and no whitespace at either end; the empty
\* title gives the empty string.
C18_NormalizedForm ==
    (call.fn = "normalize_title" /\ call.pc # "called") =>
       LET r == call.result
       IN  /\ \A i \in 1..Len(r) :
                 /\ r[i] \notin Uppercase
                 /\ r[i] \notin Punctuation \cup CurlyQuotes
           /\ \A i \in 1..(Len(r) - 1) :
                 ~(r[i] \in Whitespace /\ r[i + 1] \in Whitespace)
           /\ r # <<>> => (r[1] \notin Whitespace /\ r[Len(r)] \notin Whitespace)
           /\ call.title = <<>> => r = <<>>

\* C19: normalize_title is idempotent: normalize(normalize(x)) = normalize(x)
\* for every title x.
C19_NormalizeIdempotent ==
    (call.fn = "normalize_title" /\ call.pc = "both") => call.again = call.result

\* A title with punctuation and whitespace that normalization changed into a
\* non-empty string.
C19_Witness ==
    /\ call.fn = "normalize_title" /\ call.pc = "both"
    /\ call.result # call.title
    /\ call.result # <<>>
    /\ \E i \in 1..Len(call.title) : call.title[i] \in Punctuation
    /\ \E i \in 1..Len(call.title) : call.title[i] \in Whitespace

(***************************************************************************)
(* A further property of the comparator, under SpecRec.                    *)
(***************************************************************************)
\* C20: when the file of one side is absent or holds no record, find_matches
\* records no matched and no potential pair, and at its end every record of
\* the other side is in that side's only-in list.
C20_EmptySideAllOnlyIn ==
    /\ (cmp.pc \in {"matching", "done"}
           /\ (cmp.cv_data.publications = <<>> \/ cmp.scholar_data.publications = <<>>))
       => (cmp.matched = <<>> /\ cmp.potential_matches = <<>>)
    /\ (cmp.pc = "done" /\ cmp.scholar_data.publications = <<>>)
       => (cmp.only_in_cv = cmp.cv_pubs /\ cmp.only_in_scholar = <<>>)
    /\ (cmp.pc = "done" /\ cmp.cv_data.publications = <<>>)
       => (cmp.only_in_scholar = cmp.scholar_pubs /\ cmp.only_in_cv = <<>>)

\* No scholar file at all, and two CV records reported as only in the CV.
C20_Witness ==
    /\ cmp.pc = "done"
    /\ cmp.scholar_data.kind = "absent"
    /\ Len(cmp.cv_pubs) = 2
    /\ cmp.only_in_cv = cmp.cv_pubs

(***************************************************************************)
(* The comparison of one CV record with one Scholar record, on the titles  *)
(* of the documented scenarios.                                            *)
(***************************************************************************)
\* "Mapping Flood Risk in Coastal Cities"
TitleA ==
    <<"M", "a", "p", "p", "i", "n", "g", " ", "F", "l", "o", "o", "d", " ",
      "R", "i", "s", "k", " ", "i", "n", " ", "C", "o", "a", "s", "t", "a",
      "l", " ", "C", "i", "t", "i", "e", "s">>

\* "mapping flood risk in coastal cities."
TitleB ==
    <<"m", "a", "p", "p", "i", "n", "g", " ", "f", "l", "o", "o", "d", " ",
      "r", "i", "s", "k", " ", "i", "n", " ", "c", "o", "a", "s", "t", "a",
      "l", " ", "c", "i", "t", "i", "e", "s", ".">>

\* "Mapping Flood Risk, Coastal Cities Worldwide"
TitleB2 ==
    <<"M", "a", "p", "p", "i", "n", "g", " ", "F", "l", "o", "o", "d", " ",
      "R", "i", "s", "k", ",", " ", "C", "o", "a", "s", "t", "a", "l", " ",
      "C", "i", "t", "i", "e", "s", " ", "W", "o", "r", "l", "d", "w", "i",
      "d", "e">>

\* lines 306-316, with one record in each file.
ExtractScenario ==
    /\ cmp.pc = "new"
    /\ \E cy \in {<<>>, <<"2", "0", "1", "9">>},
          st \in {TitleA, TitleB, TitleB2},
          sy \in {AbsentYear, Y2019, Y2020, IntYear(2020)} :
          LET cv == <<CvRecord(TitleA, cy)>>
              sch == <<ScholarPub(st, sy, FALSE)>>
          IN  cmp' = [cmp EXCEPT
                         !.pc = "extracted",
                         !.cv_data = StoreDoc(cv),
                         !.scholar_data = StoreDoc(sch),
                         !.cv_pubs = cv,
                         !.scholar_pubs = extract_scholar_publications(sch)]
    /\ UNCHANGED updVars

NextScenario == ExtractScenario \/ BeginMatch \/ MatchStep \/ Collect

SpecScenario == InitRec /\ [][NextScenario]_vars

\* find_matches has run with the default thresholds on A = {TitleA, "2019"}
\* and B2 = {TitleB2, "2020"}.
ScenarioTwoDone ==
    /\ cmp.pc = "done"
    /\ DefaultThresholds
    /\ Keys(cmp.cv_pubs) = << <<TitleA, <<"2", "0", "1", "9">> >> >>
    /\ Keys(cmp.scholar_pubs) = << <<TitleB2, <<"2", "0", "2", "0">> >> >>

\* C21 as stated: A against B2 with thresholds 0.85 and 0.65 has a
\* year-damped score in [0.65, 0.85), and the pair is Potential, not Matched.
C21_ScenarioTwoPotential ==
    ScenarioTwoDone =>
       LET score == MatchScore(cmp.cv_pubs[1], cmp.scholar_pubs[1])
       IN  /\ Geq(score, PotentialThreshold)
           /\ ~Geq(score, DuplicateThreshold)
           /\ Len(cmp.potential_matches) = 1
           /\ cmp.matched = <<>>

\* C21, amended: A against B2 with thresholds 0.85 and 0.65 has the base
\* similarity 66/79 and the year-damped score 0.7 * 66/79, which is below
\* 0.65: no pair is recorded, A is only in the CV and B2 only in Scholar.
C21_ScenarioTwoUnmatched ==
    ScenarioTwoDone =>
       LET score == MatchScore(cmp.cv_pubs[1], cmp.scholar_pubs[1])
       IN  /\ SameScore(similarity_score(cmp.cv_pubs[1].title_normalized,
                                         cmp.scholar_pubs[1].title_normalized),
                        <<66, 79>>)
           /\ SameScore(score, <<462, 790>>)
           /\ ~Geq(score, PotentialThreshold)
           /\ cmp.matched = <<>>
           /\ cmp.potential_matches = <<>>
           /\ cmp.only_in_cv = cmp.cv_pubs
           /\ cmp.only_in_scholar = cmp.scholar_pubs

C21_Witness ==
    /\ ScenarioTwoDone
    /\ Len(cmp.only_in_cv) = 1
    /\ Len(cmp.only_in_scholar) = 1

(***************************************************************************)
(* Two invocations of main of update_incremental.py, one after the other:  *)
(* the second starts when the first has ended.                             *)
(***************************************************************************)
\* The new files given to the invocations.  Against the store of one record
\* 'abc' of 2019: a new record; a potential duplicate and a new record; a
\* duplicate.
SerialBatches ==
    { <<Pub(<<"z">>, Y2021)>>,
      <<Pub(<<"a", "b", "c">>, NullYear), Pub(<<"z">>, Y2021)>>,
      <<Pub(<<"A", "b", "c", ".">>, IntYear(2019))>> }

SerialFiles ==
    {[p \in Paths |-> IF p = DefaultPath THEN fd ELSE fc] :
        fd \in {AbsentFile, StoreDoc(<<Pub(<<"a", "b", "c">>, Y2019)>>)},
        fc \in {AbsentFile, CustomStore}}

InitSerial ==
    /\ procs = {1, 2}
    /\ files \in SerialFiles
    /\ backups = [k \in BackupKeys |-> AbsentFile]
    /\ now = 0
    /\ upd = [u \in procs |-> FreshUpdater]
    /\ cmp = FreshComparator
    /\ call = NoCall

\* The invocation has ended: main returned or an exception ended it.
Ended(u) == Self(u).pc \in {"done", "crashed"}

\* Invocation u runs: every earlier one has ended.
Turn(u) == \A v \in procs : v < u => Ended(v)

NextSerial ==
    \/ \E u \in procs : Turn(u) /\ CreateStoreFrom(u, SerialBatches)
    \/ \E u \in procs : Turn(u) /\ ConstructFrom(u, SerialBatches)
    \/ \E u \in procs : Turn(u) /\ FindNew(u)
    \/ \E u \in procs : Turn(u) /\ Answer(u)
    \/ \E u \in procs : Turn(u) /\ NothingToAdd(u)
    \/ \E u \in procs : Turn(u) /\ Backup(u)
    \/ \E u \in procs : Turn(u) /\ BackupFail(u)
    \/ \E u \in procs : Turn(u) /\ Merge(u)
    \/ \E u \in procs : Turn(u) /\ OpenOutput(u)
    \/ \E u \in procs : Turn(u) /\ OpenFail(u)
    \/ \E u \in procs : Turn(u) /\ WriteDone(u)
    \/ \E u \in procs : Turn(u) /\ WriteFail(u)
    \/ Tick

SpecSerial == InitSerial /\ [][NextSerial]_vars

\* Every record of s is in t, as many times at least.
Includes(t, s) == \A x \in Range(s) : Count(t, x) >= Count(s, x)

\* No write of a store is under way or was cut short.
NoWriteOpen == \A v \in procs : Self(v).pc # "writing" /\ Self(v).error # "write"

\* C22: with the invocations run one at a time no record is ever lost: after
\* a completed merge, and after the merges that follow it, every record that
\* was in the persisted store before it is still there, and the record
\* count has not decreased.
C22_SerialMergesLoseNothing ==
    \A u \in procs :
       (Merged(u) /\ NoWriteOpen) =>
          /\ files[Self(u).output_path].kind = "doc"
          /\ Includes(files[Self(u).output_path].publications,
                      Self(u).pre_merge.publications)
          /\ files[Self(u).output_path].total_publications
                >= Self(u).pre_merge.total_publications

\* merge_and_save of u made its checkpoint (lines 123-127 ran to the end).
Checkpointed(u) ==
    Self(u).merge_entered /\ Self(u).backup /\ Self(u).error # "backup"

ClaimedBefore(i) ==
    {Pairs[l].scholar_idx : l \in {n \in 1..Len(Pairs) : Pairs[n].cv_idx < i}}

\* The unclaimed scholar positions whose score against a is the winning one.
Winners(a, claimed) ==
    {j \in (1..Len(cmp.scholar_pubs)) \ claimed :
        SameScore(MatchScore(a, cmp.scholar_pubs[j]), WinningScore(a, claimed))}

\* C24: the partner selected for record a is the not-yet-claimed record of B
\* with the maximum year-adjusted score against a; when several unclaimed
\* records share that maximum, the first of them in B's order is selected.
C24_FirstBestUnclaimedPartner ==
    cmp.pc \in {"matching", "done"} =>
       \A k \in 1..Len(Pairs) :
          LET claimed == ClaimedBefore(Pairs[k].cv_idx)
          IN  /\ Pairs[k].scholar_idx \notin claimed
              /\ SameScore(Pairs[k].score, WinningScore(Pairs[k].cv, claimed))
              /\ Pairs[k].scholar_idx = MinOf(Winners(Pairs[k].cv, claimed))

\* A finished run in which one record had two unclaimed candidates at the
\* winning score, and a later record was paired with what was left.
C24_Witness ==
    /\ cmp.pc = "done"
    /\ \E k \in 1..Len(Pairs) :
          Cardinality(Winners(Pairs[k].cv, ClaimedBefore(Pairs[k].cv_idx))) >= 2
    /\ \E k \in 1..Len(Pairs) : ClaimedBefore(Pairs[k].cv_idx) # {}

IsPrefix(s, t) == Len(s) <= Len(t) /\ \A k \in 1..Len(s) : t[k] = s[k]

\* C25: a claim is never revoked: once a record b of B is paired (matched or
\* potential) with a record a, b is excluded from the candidates of every
\* later record of A and stays paired with a in the report, even when a
\* later record a' scores strictly higher against b than a did.
C25_ClaimsNeverRevoked ==
    [][cmp.pc = "matching" =>
          /\ IsPrefix(cmp.matched, cmp'.matched)
          /\ IsPrefix(cmp.potential_matches, cmp'.potential_matches)
          /\ cmp.scholar_matched_indices \subseteq cmp'.scholar_matched_indices
          /\ PairedScholar \subseteq cmp.scholar_matched_indices
          /\ \A k \in 1..Len(cmp'.matched) :
                k > Len(cmp.matched) =>
                   cmp'.matched[k].scholar_idx \notin cmp.scholar_matched_indices
          /\ \A k \in 1..Len(cmp'.potential_matches) :
                k > Len(cmp.potential_matches) =>
                   cmp'.potential_matches[k].scholar_idx
                      \notin cmp.scholar_matched_indices]_vars

\* A finished report that keeps the pair (a, b) although a later record a'
\* of the CV scores strictly higher against b than a did.
C25_Witness ==
    /\ cmp.pc = "done"
    /\ \E k \in 1..Len(Pairs) :
          \E i \in 1..Len(cmp.cv_pubs) :
             /\ i > Pairs[k].cv_idx
             /\ Gt(MatchScore(cmp.cv_pubs[i], Pairs[k].scholar), Pairs[k].score)
             /\ i \notin PairedCv

(***************************************************************************)
(* The three classes of find_new_publications: the updater is constructed  *)
(* and find_new_publications runs (lines 233-236), on stores and batches   *)
(* with near-identical titles and with years that agree or are missing.    *)
(***************************************************************************)
DedupExistingPool ==
    { Pub(<<"a", "b", "c", "d">>, AbsentYear),
      Pub(<<"a", "b", "c">>, Y2019),
      Pub(<<"a", "b">>, AbsentYear),
      Pub(<<"x", "y">>, Y2020) }

DedupBatchPool ==
    { Pub(<<"a", "b", "c">>, Y2019),
      Pub(<<"a", "b", "c">>, NullYear),
      Pub(<<"A", "b", "c", ".">>, IntYear(2019)),
      Pub(<<"z">>, Y2021) }

InitDedup ==
    /\ procs = {1}
    /\ files \in {[p \in Paths |-> IF p = DefaultPath THEN StoreDoc(E) ELSE AbsentFile] :
                     E \in SeqsUpTo(DedupExistingPool, MaxStore)}
    /\ backups = [k \in BackupKeys |-> AbsentFile]
    /\ now = 0
    /\ upd = [u \in procs |-> FreshUpdater]
    /\ cmp = FreshComparator
    /\ call = NoCall

NextDedup ==
    \/ \E u \in procs : ConstructFrom(u, SeqsUpTo(DedupBatchPool, MaxBatch))
    \/ \E u \in procs : FindNew(u)

SpecDedup == InitDedup /\ [][NextDedup]_vars

\* The records of a pair list, in order.
NewOf(pairs) == [k \in 1..Len(pairs) |-> pairs[k].new]

\* The maximum score of n over the loaded collection E (0 when E is empty).
MaxScore(u, n) ==
    LET scores == {DedupScore(n, Self(u).existing_data.publications[j]) :
                      j \in 1..Len(Self(u).existing_data.publications)}
                  \cup {ZeroScore}
    IN  CHOOSE s \in scores : \A t \in scores : Geq(s, t)

\* The positions of E whose score against n is the maximum.
MaxPositions(u, n) ==
    {j \in 1..Len(Self(u).existing_data.publications) :
        SameScore(DedupScore(n, Self(u).existing_data.publications[j]),
                  MaxScore(u, n))}

IsDuplicate(u, n) == DuplicatePositions(u, n) # {}
IsPotential(u, n) ==
    ~IsDuplicate(u, n) /\ Geq(MaxScore(u, n), PotentialThreshold)
IsTrulyNew(u, n) ==
    ~IsDuplicate(u, n) /\ ~Geq(MaxScore(u, n), PotentialThreshold)

\* C26: a new record n is classified Duplicate exactly when some record of
\* E has a year-adjusted score against n at or above the duplicate
\* threshold; its recorded partner and score are those of the first such
\* record in E's order, not of the best-scoring record of E.
C26_FirstAboveThreshold ==
    \A u \in procs :
       Analyzed(u) =>
          /\ NewOf(Self(u).duplicates)
                = SelectSeq(Self(u).new_pubs, LAMBDA n : IsDuplicate(u, n))
          /\ \A k \in 1..Len(Self(u).duplicates) :
                LET d == Self(u).duplicates[k]
                    first == MinOf(DuplicatePositions(u, d.new))
                IN  /\ d.idx = first
                    /\ d.existing = Self(u).existing_data.publications[first]
                    /\ SameScore(d.score,
                          DedupScore(d.new,
                                     Self(u).existing_data.publications[first]))

\* A Duplicate whose partner is not the best-scoring record of E: a later
\* record of E scores strictly higher.
C26_Witness ==
    \E u \in procs :
       /\ Analyzed(u)
       /\ \E k \in 1..Len(Self(u).duplicates) :
             LET d == Self(u).duplicates[k]
             IN  \E j \in 1..Len(Self(u).existing_data.publications) :
                    /\ j > d.idx
                    /\ Gt(DedupScore(d.new,
                                     Self(u).existing_data.publications[j]),
                          d.score)

\* C27: when no record of E reaches the duplicate threshold against n: if
\* the maximum score over E is at or above the potential threshold (0.65),
\* n is a PotentialDuplicate paired with the first record of E attaining
\* that maximum; otherwise n is TrulyNew.  Every record of N ends in exactly
\* one of the three classes.
C27_PotentialOrTrulyNew ==
    \A u \in procs :
       Analyzed(u) =>
          /\ NewOf(Self(u).potential_duplicates)
                = SelectSeq(Self(u).new_pubs, LAMBDA n : IsPotential(u, n))
          /\ Self(u).truly_new
                = SelectSeq(Self(u).new_pubs, LAMBDA n : IsTrulyNew(u, n))
          /\ \A k \in 1..Len(Self(u).potential_duplicates) :
                LET d == Self(u).potential_duplicates[k]
                    first == MinOf(MaxPositions(u, d.new))
                IN  /\ d.idx = first
                    /\ d.existing = Self(u).existing_data.publications[first]
                    /\ SameScore(d.score, MaxScore(u, d.new))
          /\ Len(Self(u).duplicates) + Len(Self(u).potential_duplicates)
                + Len(Self(u).truly_new) = Len(Self(u).new_pubs)

\* A batch with a TrulyNew record and a PotentialDuplicate for which two
\* records of E attain the maximum score.
C27_Witness ==
    \E u \in procs :
       /\ Analyzed(u)
       /\ Self(u).truly_new # <<>>
       /\ \E k \in 1..Len(Self(u).potential_duplicates) :
             Cardinality(MaxPositions(u, Self(u).potential_duplicates[k].new)) >= 2

\* C28: a confirmed merge writes its result to the store that was read as
\* the existing collection E: with an explicit existing-store path, after
\* the merge that path holds E plus the TrulyNew records, and no other store
\* file is created or overwritten.
C28_MergeWritesStoreRead ==
    \A u \in procs :
       Merged(u) =>
          /\ files[Self(u).existing_path].kind = "doc"
          /\ IsPermutation(files[Self(u).existing_path].publications,
                           Self(u).existing_data.publications
                              \o Self(u).truly_new)
          /\ Self(u).output_path # Self(u).existing_path =>
                files[Self(u).output_path] = Self(u).pre_merge

\* Invocation v has deduplicated the batch of invocation u against the store
\* as the merge of u left it.
SameBatchAgain(u, v) ==
    /\ u # v
    /\ Merged(u)
    /\ Analyzed(v)
    /\ Self(v).new_pubs = Self(u).new_pubs
    /\ Self(v).existing_path = Self(u).output_path
    /\ Self(v).existing_data = Self(u).merged_data

\* C29: deduplicate-then-merge is idempotent per batch: after a successful
\* merge of batch N, deduplicating the same N against the updated store
\* classifies no record as TrulyNew (every previously TrulyNew record is now
\* a Duplicate), and a second merge leaves the store's record sequence
\* unchanged.
C29_SecondRunAddsNothing ==
    \A u, v \in procs :
       SameBatchAgain(u, v) =>
          /\ Self(v).truly_new = <<>>
          /\ \A n \in Range(Self(u).truly_new) :
                n \in Range(NewOf(Self(v).duplicates))
          /\ ~SortRaises(Self(v).existing_pubs \o Self(v).truly_new)
          /\ merged_publications(Self(v)) = Self(u).merged_data.publications
          /\ Self(v).pc = "done" =>
                files[Self(u).output_path].publications
                   = Self(u).merged_data.publications

\* The first invocation added a record and left another out as a potential
\* duplicate; the second invocation, on the same batch, has merged as well.
C29_Witness ==
    \E u, v \in procs :
       /\ SameBatchAgain(u, v)
       /\ Self(u).truly_new # <<>>
       /\ Self(u).potential_duplicates # <<>>
       /\ Merged(v)

(***************************************************************************)
(* Two invocations of main at the same time on the default store: their    *)
(* steps interleave freely.  Each brings a batch of one record that is not *)
(* in the store.                                                           *)
(***************************************************************************)
ConcurrentBatches ==
    { <<Pub(<<"z">>, Y2021)>>, <<Pub(<<"x", "y">>, AbsentYear)>> }

InitConcurrent ==
    /\ procs = {1, 2}
    /\ files = [p \in Paths |->
                  IF p = DefaultPath
                  THEN StoreDoc(<<Pub(<<"a", "b", "c">>, Y2019)>>)
                  ELSE AbsentFile]
    /\ backups = [k \in BackupKeys |-> AbsentFile]
    /\ now = 0
    /\ upd = [u \in procs |-> FreshUpdater]
    /\ cmp = FreshComparator
    /\ call = NoCall

NextConcurrent ==
    \/ \E u \in procs : ConstructFrom(u, ConcurrentBatches)
    \/ \E u \in procs : FindNew(u)
    \/ \E u \in procs : Answer(u)
    \/ \E u \in procs : Backup(u)
    \/ \E u \in procs : BackupFail(u)
    \/ \E u \in procs : Merge(u)
    \/ \E u \in procs : OpenOutput(u)
    \/ \E u \in procs : OpenFail(u)
    \/ \E u \in procs : WriteDone(u)
    \/ \E u \in procs : WriteFail(u)
    \/ Tick

SpecConcurrent == InitConcurrent /\ [][NextConcurrent]_vars

\* C30: merge_and_save builds the new store from the records loaded when
\* the updater was constructed and never reads the persisted store again:
\* once loaded, existing_pubs does not change, and a completed write stores
\* the loaded records with truly_new, whatever the store holds by then.  So
\* with two updaters that both load before either merges (load1, load2,
\* merge1, merge2) the records added by merge1 are lost from the store,
\* while the checkpoint of merge2 still holds them.
C30_MergeFromLoadedRecords ==
    [][\A u \in procs :
          /\ Analyzed(u) =>
                /\ upd'[u].existing_pubs = Self(u).existing_data.publications
                /\ upd'[u].existing_data = Self(u).existing_data
          /\ (Self(u).pc = "writing" /\ upd'[u].pc = "done") =>
                files'[Self(u).output_path].publications
                   = SortByYearDesc(Self(u).existing_data.publications
                                       \o Self(u).truly_new)]_vars

\* The lost update: both updaters loaded the store before either merge, both
\* merges are complete, a record added by the first is not in the store, and
\* a checkpoint holds it.
C30_Witness ==
    \E u, v \in procs :
       /\ u # v
       /\ Merged(u) /\ Merged(v)
       /\ Self(u).existing_data = Self(v).existing_data
       /\ \E n \in Range(Self(u).truly_new) :
             /\ n \notin Range(files[Self(u).output_path].publications)
             /\ n \in Range(Self(u).merged_data.publications)
             /\ \E k \in BackupKeys :
                   /\ backups[k].kind = "doc"
                   /\ n \in Range(backups[k].publications)

=============================================================================
